---- MODULE Spec2Model ----
(***************************************************************************)
(* Model of the Unity License Server exporter (src/src/main.rs).           *)
(*                                                                         *)
(* The server has two routes.  "/" answers a constant banner.  "/metrics"  *)
(* runs metrics_handle -> metrics: one GET to the status endpoint, then,   *)
(* only for a "Healthy" server, one GET to the lease endpoint, then the    *)
(* registry is gathered and encoded.  Every inbound request runs in its    *)
(* own task; the two awaits on the upstream are the only suspension        *)
(* points, so a scrape is three steps: Request, StatusReply, LeaseReply.   *)
(*                                                                         *)
(* Text is a sequence of one-character strings.  The encoded text of a 200 *)
(* reply is represented by the set of its sample lines (name, label        *)
(* values, value); its HELP/TYPE comment lines are not represented.        *)
(***************************************************************************)
EXTENDS Integers, Sequences, FiniteSets, TLC

\* ------------------------------------------------------------------ bounds
\* number of request tasks that can be in flight at once
NumScrapes == 2
\* longest lease array the upstream returns
MaxLeases == 3
\* longest transport error description
MaxDescLen == 3

Scrapes == 1..NumScrapes

\* ------------------------------------------------------- JSON numerals
\* An integer on the wire is a sign and its decimal digits; serde parses it
\* into the field's integer type and fails when the value does not fit.
Num(neg, digits) == [neg |-> neg, digits |-> digits]

I32MaxDigits == <<2, 1, 4, 7, 4, 8, 3, 6, 4, 7>>
I32MinDigits == <<2, 1, 4, 7, 4, 8, 3, 6, 4, 8>>
I64MaxDigits == <<9, 2, 2, 3, 3, 7, 2, 0, 3, 6, 8, 5, 4, 7, 7, 5, 8, 0, 7>>
I64MinDigits == <<9, 2, 2, 3, 3, 7, 2, 0, 3, 6, 8, 5, 4, 7, 7, 5, 8, 0, 8>>

\* a <= b for two digit strings without leading zeros
RECURSIVE DigitsLeq(_, _)
DigitsLeq(a, b) ==
    IF Len(a) # Len(b) THEN Len(a) < Len(b)
    ELSE IF a = <<>> THEN TRUE
    ELSE IF Head(a) # Head(b) THEN Head(a) < Head(b)
    ELSE DigitsLeq(Tail(a), Tail(b))

RECURSIVE DigitsValue(_)
DigitsValue(d) ==
    IF d = <<>> THEN 0 ELSE DigitsValue(SubSeq(d, 1, Len(d) - 1)) * 10 + d[Len(d)]

FitsI32(n) == DigitsLeq(n.digits, IF n.neg THEN I32MinDigits ELSE I32MaxDigits)
FitsI64(n) == DigitsLeq(n.digits, IF n.neg THEN I64MinDigits ELSE I64MaxDigits)

NumValue(n) == IF n.neg THEN 0 - DigitsValue(n.digits) ELSE DigitsValue(n.digits)

\* i32::to_string: the decimal rendering, one character per digit
DigitChar == <<"0", "1", "2", "3", "4", "5", "6", "7", "8", "9">>

RECURSIVE NatToString(_)
NatToString(n) ==
    IF n < 10 THEN <<DigitChar[n + 1]>>
    ELSE NatToString(n \div 10) \o <<DigitChar[(n % 10) + 1]>>

to_string(i) == IF i < 0 THEN <<"-">> \o NatToString(0 - i) ELSE NatToString(i)

\* ------------------------------------------------------ upstream replies
RECURSIVE SeqsUpTo(_, _)
SeqsUpTo(S, n) ==
    IF n = 0 THEN {<<>>}
    ELSE LET shorter == SeqsUpTo(S, n - 1)
         IN  shorter \cup {Append(q, x) : q \in {p \in shorter : Len(p) = n - 1}, x \in S}

\* characters of an error description: a letter and the line feed
DescChars == {"e", "\n"}
Descs == SeqsUpTo(DescChars, MaxDescLen)

\* the request could not be sent or the connection failed
TransportFailures == {[kind |-> "transport", desc |-> d] : d \in Descs}
\* a body that is not JSON of the expected shape
Garbage == [kind |-> "garbage"]
NoReply == [kind |-> "none"]

ServerStatuses == {"Healthy", "healthy", "Healthy ", "Down"}
UpTimes == {Num(FALSE, <<0>>), Num(FALSE, <<1, 2, 3, 4, 5, 6>>), Num(TRUE, <<5>>)}
\* 2^63, one more than an i64 holds
TooBigUpTime == Num(FALSE, <<9, 2, 2, 3, 3, 7, 2, 0, 3, 6, 8, 5, 4, 7, 7, 5, 8, 0, 8>>)

StatusBodies ==
    {[kind |-> "json", serverStatus |-> s, serverUpTimeMs |-> u] :
        s \in ServerStatuses, u \in UpTimes}
    \cup {[kind |-> "json", serverStatus |-> "Healthy", serverUpTimeMs |-> TooBigUpTime]}

StatusReplies == TransportFailures \cup {Garbage} \cup StatusBodies

WireLicense(id, user, host, domain, revoked) ==
    [floatingLeaseId |-> id,
     clientEntitlementContext |->
        [EnvironmentDomain |-> domain, EnvironmentHostname |-> host, EnvironmentUser |-> user],
     isRevoked |-> revoked]

\* 2^32 + 7, which a 32-bit wrap-around would turn into 7
TooBigLeaseId == Num(FALSE, <<4, 2, 9, 4, 9, 6, 7, 3, 0, 3>>)

WireLicenses ==
    { WireLicense(Num(FALSE, <<7>>), "alice", "host1", "corp", FALSE),
      WireLicense(Num(FALSE, <<7>>), "alice", "host1", "corp", TRUE),
      WireLicense(Num(FALSE, <<7>>), "bob", "host1", "corp", FALSE),
      WireLicense(Num(FALSE, <<8>>), "alice", "host1", "corp", TRUE),
      WireLicense(Num(FALSE, <<7>>), "alice", "host2", "lab", FALSE),
      WireLicense(TooBigLeaseId, "alice", "host1", "corp", FALSE) }

LeaseBodies == {[kind |-> "json", array |-> a] : a \in SeqsUpTo(WireLicenses, MaxLeases)}

LeaseReplies == TransportFailures \cup {Garbage} \cup LeaseBodies

\* A few replies of each kind, for the runs with several scrapes in flight
CoreStatusReplies ==
    {x \in StatusReplies :
        \/ x.kind = "garbage"
        \/ x.kind = "transport" /\ x.desc = <<"e">>
        \/ x.kind = "json" /\ x.serverStatus \in {"Healthy", "Down"}
                           /\ x.serverUpTimeMs = Num(FALSE, <<1, 2, 3, 4, 5, 6>>)}

CoreLeaseReplies ==
    {x \in LeaseReplies :
        \/ x.kind = "transport" /\ x.desc = <<"e">>
        \/ x.kind = "json" /\ Len(x.array) <= 2
                           /\ \A i \in 1..Len(x.array) :
                                 /\ x.array[i].floatingLeaseId = Num(FALSE, <<7>>)
                                 /\ x.array[i].clientEntitlementContext.EnvironmentUser = "alice"
                                 /\ x.array[i].clientEntitlementContext.EnvironmentHostname = "host1"}

\* Display text of a reqwest decode error (one line)
DecodeErrorText == <<"e">>

Ok(v) == [ok |-> TRUE, val |-> v]
Err(d) == [ok |-> FALSE, desc |-> d]

\* reqwest::get(status_endpoint).await?.json().await? into StatusReport
DecodeStatus(reply) ==
    IF reply.kind = "transport" THEN Err(reply.desc)
    ELSE IF reply.kind # "json" THEN Err(DecodeErrorText)
    ELSE IF ~FitsI64(reply.serverUpTimeMs) THEN Err(DecodeErrorText)
    ELSE Ok([server_status |-> reply.serverStatus,
             server_up_time_ms |-> NumValue(reply.serverUpTimeMs)])

DecodeLicense(w) ==
    [floating_lease_id |-> NumValue(w.floatingLeaseId),
     client_entitlement_context |->
        [environment_domain |-> w.clientEntitlementContext.EnvironmentDomain,
         environment_hostname |-> w.clientEntitlementContext.EnvironmentHostname,
         environment_user |-> w.clientEntitlementContext.EnvironmentUser],
     is_revoked |-> w.isRevoked]

\* 4294967303 as i32 is 7
WrappedI32(n) == IF n = TooBigLeaseId THEN 7 ELSE NumValue(n)

DecodeLeasesWrapping(reply) ==
    IF reply.kind = "transport" THEN Err(reply.desc)
    ELSE IF reply.kind # "json" THEN Err(DecodeErrorText)
    ELSE Ok([i \in 1..Len(reply.array) |->
                [DecodeLicense([reply.array[i] EXCEPT !.floatingLeaseId = Num(FALSE, <<0>>)])
                    EXCEPT !.floating_lease_id = WrappedI32(reply.array[i].floatingLeaseId)]])

\* reqwest::get(lease_endpoint).await?.json().await? into Vec<License>
DecodeLeases(reply) ==
    IF reply.kind = "transport" THEN Err(reply.desc)
    ELSE IF reply.kind # "json" THEN Err(DecodeErrorText)
    ELSE IF \E i \in 1..Len(reply.array) : ~FitsI32(reply.array[i].floatingLeaseId)
         THEN Err(DecodeErrorText)
    ELSE Ok([i \in 1..Len(reply.array) |-> DecodeLicense(reply.array[i])])

\* ------------------------------------------------------------- registry
\* A registry maps each registered metric name to its family: the value at
\* every label tuple that has been set.  A scalar gauge is the family whose
\* only label tuple is the empty one.  The gauges are shared handles, so a
\* set() after register() is seen by the registry.
NoLabels == <<>>
EmptyFamily == [l \in {} |-> 0]

RegistryWithHealth == ("uls_health" :> (NoLabels :> 0))

\* Registry::new()
RegistryNew == [n \in {} |-> EmptyFamily]

\* Registry::register fails with AlreadyReg when the name is taken
CanRegister(reg, name) == name \notin DOMAIN reg
Register(reg, name, family) == reg @@ (name :> family)

\* IntGauge::new creates the gauge at 0
NewGauge == (NoLabels :> 0)
\* IntGaugeVec::new creates a family without samples
NewGaugeVec == EmptyFamily

\* IntGauge::set / with_label_values(..).set
SetValue(reg, name, labels, v) ==
    [reg EXCEPT ![name] = (labels :> v) @@ @]

\* Registry::gather followed by TextEncoder::encode: one sample line per
\* label tuple of each family; a family without samples is left out
Gather(reg) ==
    UNION {{[name |-> n, labels |-> l, value |-> reg[n][l]] : l \in DOMAIN reg[n]} :
            n \in DOMAIN reg}

\* ------------------------------------------------------------ the scrape
HealthValueInverted(status_report) ==
    IF status_report.server_status = "Healthy" THEN 0 ELSE 1

HealthValue(status_report) == IF status_report.server_status = "Healthy" THEN 1 ELSE 0

UptimeValueSeconds(status_report) == status_report.server_up_time_ms \div 1000

UptimeValue(status_report) == status_report.server_up_time_ms

NeedsLeasesLoose(status_report) ==
    status_report.server_status \in {"Healthy", "healthy", "Healthy "}

\* the condition guarding the lease fetch
NeedsLeases(status_report) == status_report.server_status = "Healthy"

LabelValuesHostTwice(license) ==
    <<to_string(license.floating_lease_id),
      license.client_entitlement_context.environment_hostname,
      license.client_entitlement_context.environment_hostname,
      license.client_entitlement_context.environment_domain>>

LabelValues(license) ==
    <<to_string(license.floating_lease_id),
      license.client_entitlement_context.environment_user,
      license.client_entitlement_context.environment_hostname,
      license.client_entitlement_context.environment_domain>>

LeaseValue(license) == IF license.is_revoked THEN 0 ELSE 1

RECURSIVE SetLeasesFirstWins(_, _)
SetLeasesFirstWins(reg, licenses) ==
    IF licenses = <<>> THEN reg
    ELSE LET l == licenses[Len(licenses)]
         IN  SetLeasesFirstWins(SetValue(reg, "uls_license_leased", LabelValues(l), LeaseValue(l)),
                                SubSeq(licenses, 1, Len(licenses) - 1))

\* for license in report.iter() { lease_gauge.with_label_values(..).set(..) }
RECURSIVE SetLeases(_, _)
SetLeases(reg, licenses) ==
    IF licenses = <<>> THEN reg
    ELSE SetLeases(SetValue(reg, "uls_license_leased",
                            LabelValues(Head(licenses)), LeaseValue(Head(licenses))),
                   Tail(licenses))

LeaseFetchFailedPartial(reg, desc) == Ok(Gather(reg))

\* the ? on the lease fetch: metrics returns the error, the registry is dropped
LeaseFetchFailed(reg, desc) == Err(desc)

\* ------------------------------------------------------------ responses
\* str::split("\n"): the pieces between line feeds, at least one piece
RECURSIVE Split(_)
Split(str) ==
    IF \A i \in 1..Len(str) : str[i] # "\n" THEN <<str>>
    ELSE LET i == CHOOSE k \in 1..Len(str) :
                      str[k] = "\n" /\ \A j \in 1..(k - 1) : str[j] # "\n"
         IN  <<SubSeq(str, 1, i - 1)>> \o Split(SubSeq(str, i + 1, Len(str)))

\* [&str]::join(sep)
RECURSIVE Join(_, _)
Join(pieces, sep) ==
    IF Len(pieces) = 0 THEN <<>>
    ELSE IF Len(pieces) = 1 THEN pieces[1]
    ELSE pieces[1] \o sep \o Join(Tail(pieces), sep)

LineSepBare == <<"\n">>

\* the separator of the join
LineSep == <<"\n", "#", " ">>

ErrorHeader ==
    <<"#", " ", "A", "n", " ", "e", "r", "r", "o", "r", " ", "o", "c", "c", "u", "r", "e",
      "d", " ", "w", "h", "i", "l", "e", " ", "t", "r", "y", "i", "n", "g", " ", "t", "o",
      " ", "c", "o", "n", "t", "a", "c", "t", " ", "t", "h", "e", " ", "l", "i", "c", "e",
      "n", "s", "e", " ", "s", "e", "r", "v", "e", "r", ":", " ", "\n", "#", " ">>

\* format!("# An error occured ...: \n# {}", e.to_string().split("\n").join("\n# "))
ErrorBody(desc) == ErrorHeader \o Join(Split(desc), LineSep)

NoResp == [code |-> 0, samples |-> {}, body |-> <<>>]
\* an unwrap() that fails aborts the request task: no response is sent
Panicked == [code |-> -1, samples |-> {}, body |-> <<>>]

metrics_handle_always_200(result) ==
    IF result.ok THEN [code |-> 200, samples |-> result.val, body |-> <<>>]
    ELSE [code |-> 200, samples |-> {}, body |-> ErrorBody(result.desc)]

\* metrics_handle: Ok(s) is replied as it is (200), Err(e) as 503
metrics_handle(result) ==
    IF result.ok THEN [code |-> 200, samples |-> result.val, body |-> <<>>]
    ELSE [code |-> 503, samples |-> {}, body |-> ErrorBody(result.desc)]

\* the closure of the index route
Banner ==
    <<"U", "n", "i", "t", "y", " ", "L", "i", "c", "e", "n", "s", "e", " ", "S", "e",
      "r", "v", "e", "r", " ", "E", "x", "p", "o", "r", "t", "e", "r", " ", "\n", " ",
      "M", "e", "t", "r", "i", "c", "s", " ", "e", "x", "p", "o", "r", "t", "e", "d",
      " ", "o", "n", " ", "/", "m", "e", "t", "r", "i", "c", "s">>
IndexReply == [code |-> 200, samples |-> {}, body |-> Banner]

\* values of ULS_BASE_URL
BaseUrls == {"http://uls:8080", "https://license.corp"}

\* format!("{}/v1/admin/status", uls_base_url), as the pair of its pieces
StatusUrl(uls_base_url) == <<uls_base_url, "/v1/admin/status">>
\* format!("{}/v1/admin/lease", uls_base_url)
LeaseUrl(uls_base_url) == <<uls_base_url, "/v1/admin/lease">>

Unset == [set |-> FALSE]
Some(v) == [set |-> TRUE, val |-> v]

\* ---------------------------------------------------------------- state
VARIABLES
    pc,             \* per request task: "idle", "status", "lease" or "done"
    r,              \* per task: its Registry
    status_report,  \* per task: the decoded StatusReport
    report,         \* per task: the decoded Vec<License>
    got,            \* per task: the upstream replies the scrape received
    calls,          \* per task: requests sent to each upstream endpoint
    resp,           \* per task: the response of the metrics route
    live,           \* the reply the index route sent in the last step, if any
    uls_status_url, \* the leaked &'static str every scrape reads
    uls_lease_url   \* the leaked &'static str every scrape reads

vars == <<pc, r, status_report, report, got, calls, resp, live,
          uls_status_url, uls_lease_url>>

urlVars == <<uls_status_url, uls_lease_url>>

scrapeVars == <<pc, r, status_report, report, got, calls, resp>>

Init ==
    /\ pc = [s \in Scrapes |-> "idle"]
    /\ r = [s \in Scrapes |-> RegistryNew]
    /\ status_report = [s \in Scrapes |-> Unset]
    /\ report = [s \in Scrapes |-> Unset]
    /\ got = [s \in Scrapes |-> [status |-> NoReply, lease |-> NoReply]]
    /\ calls = [s \in Scrapes |-> [status |-> 0, lease |-> 0]]
    /\ resp = [s \in Scrapes |-> NoResp]
    /\ live = NoResp
    /\ \E uls_base_url \in BaseUrls :
          /\ uls_status_url = StatusUrl(uls_base_url)
          /\ uls_lease_url = LeaseUrl(uls_base_url)

RequestStaleRegistry(s) ==
    /\ pc[s] \in {"idle", "done"}
    /\ pc' = [pc EXCEPT ![s] = "status"]
    /\ status_report' = [status_report EXCEPT ![s] = Unset]
    /\ report' = [report EXCEPT ![s] = Unset]
    /\ got' = [got EXCEPT ![s] = [status |-> NoReply, lease |-> NoReply]]
    /\ calls' = [calls EXCEPT ![s] = [status |-> 1, lease |-> 0]]
    /\ resp' = [resp EXCEPT ![s] = NoResp]
    /\ live' = NoResp
    /\ UNCHANGED r
    /\ UNCHANGED urlVars

RequestResetsAllRegistries(s) ==
    /\ pc[s] \in {"idle", "done"}
    /\ pc' = [pc EXCEPT ![s] = "status"]
    /\ r' = [t \in Scrapes |-> RegistryNew]
    /\ status_report' = [status_report EXCEPT ![s] = Unset]
    /\ report' = [report EXCEPT ![s] = Unset]
    /\ got' = [got EXCEPT ![s] = [status |-> NoReply, lease |-> NoReply]]
    /\ calls' = [calls EXCEPT ![s] = [status |-> 1, lease |-> 0]]
    /\ resp' = [resp EXCEPT ![s] = NoResp]
    /\ live' = NoResp
    /\ UNCHANGED urlVars

RequestBothFetches(s) ==
    /\ pc[s] \in {"idle", "done"}
    /\ pc' = [pc EXCEPT ![s] = "status"]
    /\ r' = [r EXCEPT ![s] = RegistryNew]
    /\ status_report' = [status_report EXCEPT ![s] = Unset]
    /\ report' = [report EXCEPT ![s] = Unset]
    /\ got' = [got EXCEPT ![s] = [status |-> NoReply, lease |-> NoReply]]
    /\ calls' = [calls EXCEPT ![s] = [status |-> 1, lease |-> 1]]
    /\ resp' = [resp EXCEPT ![s] = NoResp]
    /\ live' = NoResp
    /\ UNCHANGED urlVars

\* GET /metrics arrives: metrics_handle -> metrics creates the registry and
\* sends the status request
Request(s) ==
    /\ pc[s] \in {"idle", "done"}
    /\ pc' = [pc EXCEPT ![s] = "status"]
    /\ r' = [r EXCEPT ![s] = RegistryNew]
    /\ status_report' = [status_report EXCEPT ![s] = Unset]
    /\ report' = [report EXCEPT ![s] = Unset]
    /\ got' = [got EXCEPT ![s] = [status |-> NoReply, lease |-> NoReply]]
    /\ calls' = [calls EXCEPT ![s] = [status |-> 1, lease |-> 0]]
    /\ resp' = [resp EXCEPT ![s] = NoResp]
    /\ live' = NoResp
    /\ UNCHANGED urlVars

\* the task ends with this response
Finish(s, response) ==
    /\ pc' = [pc EXCEPT ![s] = "done"]
    /\ resp' = [resp EXCEPT ![s] = response]

\* the status request completes; the gauges are registered and set, and the
\* scrape either sends the lease request or encodes and replies
StatusReply(s, replies) ==
    /\ pc[s] = "status"
    /\ \E reply \in replies :
        LET dec == DecodeStatus(reply) IN
        /\ got' = [got EXCEPT ![s].status = reply]
        /\ IF ~dec.ok
           THEN /\ Finish(s, metrics_handle(Err(dec.desc)))
                /\ UNCHANGED <<r, status_report, calls>>
           ELSE IF ~CanRegister(r[s], "uls_health") \/ ~CanRegister(r[s], "uls_uptime_ms")
           THEN /\ Finish(s, Panicked)
                /\ status_report' = [status_report EXCEPT ![s] = Some(dec.val)]
                /\ UNCHANGED <<r, calls>>
           ELSE LET reg0 == Register(Register(r[s], "uls_health", NewGauge),
                                     "uls_uptime_ms", NewGauge)
                    reg1 == SetValue(reg0, "uls_health", NoLabels, HealthValue(dec.val))
                    reg2 == SetValue(reg1, "uls_uptime_ms", NoLabels, UptimeValue(dec.val))
                IN  /\ status_report' = [status_report EXCEPT ![s] = Some(dec.val)]
                    /\ r' = [r EXCEPT ![s] = reg2]
                    /\ IF NeedsLeases(dec.val)
                       THEN /\ pc' = [pc EXCEPT ![s] = "lease"]
                            /\ calls' = [calls EXCEPT ![s].lease = @ + 1]
                            /\ UNCHANGED resp
                       ELSE /\ Finish(s, metrics_handle(Ok(Gather(reg2))))
                            /\ UNCHANGED calls
    /\ UNCHANGED report
    /\ live' = NoResp
    /\ UNCHANGED urlVars

LeaseReplyUnderLock(s, replies) ==
    /\ pc[s] = "lease"
    /\ \A t \in Scrapes \ {s} : pc[t] \notin {"status", "lease"}
    /\ \E reply \in replies :
        LET dec == DecodeLeases(reply) IN
        /\ got' = [got EXCEPT ![s].lease = reply]
        /\ IF ~dec.ok
           THEN /\ Finish(s, metrics_handle(LeaseFetchFailed(r[s], dec.desc)))
                /\ UNCHANGED <<r, report>>
           ELSE IF ~CanRegister(r[s], "uls_license_leased")
           THEN /\ Finish(s, Panicked)
                /\ report' = [report EXCEPT ![s] = Some(dec.val)]
                /\ UNCHANGED r
           ELSE LET reg == SetLeases(Register(r[s], "uls_license_leased", NewGaugeVec),
                                     dec.val)
                IN  /\ report' = [report EXCEPT ![s] = Some(dec.val)]
                    /\ r' = [r EXCEPT ![s] = reg]
                    /\ Finish(s, metrics_handle(Ok(Gather(reg))))
    /\ UNCHANGED <<status_report, calls>>
    /\ live' = NoResp
    /\ UNCHANGED urlVars

LeaseReplyRetries(s, replies) ==
    /\ pc[s] = "lease"
    /\ \E reply \in replies :
        LET dec == DecodeLeases(reply) IN
        /\ got' = [got EXCEPT ![s].lease = reply]
        /\ IF ~dec.ok /\ calls[s].lease < 2
           THEN /\ calls' = [calls EXCEPT ![s].lease = @ + 1]
                /\ UNCHANGED <<pc, resp, r, report>>
           ELSE IF ~dec.ok
           THEN /\ Finish(s, metrics_handle(LeaseFetchFailed(r[s], dec.desc)))
                /\ UNCHANGED <<r, report, calls>>
           ELSE IF ~CanRegister(r[s], "uls_license_leased")
           THEN /\ Finish(s, Panicked)
                /\ report' = [report EXCEPT ![s] = Some(dec.val)]
                /\ UNCHANGED <<r, calls>>
           ELSE LET reg == SetLeases(Register(r[s], "uls_license_leased", NewGaugeVec),
                                     dec.val)
                IN  /\ report' = [report EXCEPT ![s] = Some(dec.val)]
                    /\ r' = [r EXCEPT ![s] = reg]
                    /\ Finish(s, metrics_handle(Ok(Gather(reg))))
                    /\ UNCHANGED calls
    /\ UNCHANGED status_report
    /\ live' = NoResp
    /\ UNCHANGED urlVars

\* the lease request completes; the lease family is registered and filled,
\* and the registry is encoded
LeaseReply(s, replies) ==
    /\ pc[s] = "lease"
    /\ \E reply \in replies :
        LET dec == DecodeLeases(reply) IN
        /\ got' = [got EXCEPT ![s].lease = reply]
        /\ IF ~dec.ok
           THEN /\ Finish(s, metrics_handle(LeaseFetchFailed(r[s], dec.desc)))
                /\ UNCHANGED <<r, report>>
           ELSE IF ~CanRegister(r[s], "uls_license_leased")
           THEN /\ Finish(s, Panicked)
                /\ report' = [report EXCEPT ![s] = Some(dec.val)]
                /\ UNCHANGED r
           ELSE LET reg == SetLeases(Register(r[s], "uls_license_leased", NewGaugeVec),
                                     dec.val)
                IN  /\ report' = [report EXCEPT ![s] = Some(dec.val)]
                    /\ r' = [r EXCEPT ![s] = reg]
                    /\ Finish(s, metrics_handle(Ok(Gather(reg))))
    /\ UNCHANGED <<status_report, calls>>
    /\ live' = NoResp
    /\ UNCHANGED urlVars

IndexAsksScrapes ==
    /\ live' = IF \E s \in Scrapes : resp[s].code = 503
               THEN [code |-> 503, samples |-> {}, body |-> Banner]
               ELSE IndexReply
    /\ UNCHANGED scrapeVars
    /\ UNCHANGED urlVars

\* GET / arrives and is answered at once
Index ==
    /\ live' = IndexReply
    /\ UNCHANGED scrapeVars
    /\ UNCHANGED urlVars

\* One scrape at a time, against every reply of the upstream
Next ==
    \/ Request(1)
    \/ StatusReply(1, StatusReplies)
    \/ LeaseReply(1, LeaseReplies)
    \/ Index

Spec == Init /\ [][Next]_vars

\* Several scrapes in flight, in any interleaving
ConcNext ==
    \/ \E s \in Scrapes : Request(s)
    \/ \E s \in Scrapes : StatusReply(s, CoreStatusReplies)
    \/ \E s \in Scrapes : LeaseReply(s, CoreLeaseReplies)
    \/ Index

ConcSpec == Init /\ [][ConcNext]_vars

\* the tasks whose upstream calls always return; the calls of the other
\* tasks may hang for ever
Responsive == {1}

\* The runtime resumes a task once the reply it awaits has arrived
LiveSpec ==
    /\ Init /\ [][ConcNext]_vars
    /\ \A s \in Responsive :
          /\ WF_vars(StatusReply(s, CoreStatusReplies))
          /\ WF_vars(LeaseReply(s, CoreLeaseReplies))

\* ------------------------------------------------------------ properties
Sample(n, l, v) == [name |-> n, labels |-> l, value |-> v]

SamplesNamed(response, n) == {x \in response.samples : x.name = n}

\* positions at which a line of the text starts
LineStarts(text) == {i \in 1..(Len(text) + 1) : i = 1 \/ text[i - 1] = "\n"}

EveryLineIsComment(text) ==
    \A i \in LineStarts(text) : i <= Len(text) /\ text[i] = "#"

\* no line of the response is a sample: the encoded families are empty and
\* every non-empty line of the text is a comment
NoSampleEmitted(response) ==
    /\ response.samples = {}
    /\ \A i \in LineStarts(response.body) :
          (i <= Len(response.body) /\ response.body[i] # "\n") => response.body[i] = "#"

StatusSucceeded(s) == status_report[s].set
StatusFailed(s) == got[s].status # NoReply /\ ~status_report[s].set
LeaseFailed(s) == got[s].lease # NoReply /\ ~report[s].set
ServerStatusOf(s) == status_report[s].val.server_status

\* the label tuple and the value a license on the wire stands for
WireLabels(w) ==
    <<[i \in 1..Len(w.floatingLeaseId.digits) |-> DigitChar[w.floatingLeaseId.digits[i] + 1]],
      w.clientEntitlementContext.EnvironmentUser,
      w.clientEntitlementContext.EnvironmentHostname,
      w.clientEntitlementContext.EnvironmentDomain>>

WireValue(w) == IF w.isRevoked THEN 0 ELSE 1

LeaseArray(s) == got[s].lease.array

DistinctTuples(a) ==
    \A i, j \in 1..Len(a) : i # j => WireLabels(a[i]) # WireLabels(a[j])

\* the description with every line feed followed by the comment marker
RECURSIVE CommentedOut(_)
CommentedOut(d) ==
    IF d = <<>> THEN <<>>
    ELSE IF Head(d) = "\n" THEN <<"\n", "#", " ">> \o CommentedOut(Tail(d))
    ELSE <<Head(d)>> \o CommentedOut(Tail(d))

\* C1: a scrape whose status fetch succeeds with a server_status other than
\* exactly "Healthy" answers 200 with uls_health 0 and uls_uptime_ms equal to
\* the reported uptime, has no uls_license_leased sample, and never calls
\* the lease endpoint.
C1_UnhealthySkipsLeases ==
    \A s \in Scrapes :
        (StatusSucceeded(s) /\ ServerStatusOf(s) # "Healthy") =>
            /\ pc[s] = "done"
            /\ resp[s].code = 200
            /\ SamplesNamed(resp[s], "uls_health") = {Sample("uls_health", NoLabels, 0)}
            /\ SamplesNamed(resp[s], "uls_uptime_ms") =
                  {Sample("uls_uptime_ms", NoLabels, status_report[s].val.server_up_time_ms)}
            /\ SamplesNamed(resp[s], "uls_license_leased") = {}
            /\ calls[s].lease = 0
            /\ got[s].lease = NoReply

C1_Witness ==
    \E s \in Scrapes :
        /\ pc[s] = "done"
        /\ StatusSucceeded(s)
        /\ ServerStatusOf(s) = "Healthy "
        /\ status_report[s].val.server_up_time_ms = 123456
        /\ resp[s].code = 200

\* C2: a scrape whose status fetch succeeds with server_status "Healthy"
\* calls the lease endpoint exactly once, and if it answers 200 its output
\* contains uls_health 1.
C2_HealthyFetchesLeasesOnce ==
    \A s \in Scrapes :
        (StatusSucceeded(s) /\ ServerStatusOf(s) = "Healthy") =>
            /\ calls[s].lease = 1
            /\ pc[s] \in {"lease", "done"}
            /\ (pc[s] = "done" => got[s].lease # NoReply)
            /\ (resp[s].code = 200 => Sample("uls_health", NoLabels, 1) \in resp[s].samples)

C2_Witness ==
    \E s \in Scrapes :
        /\ pc[s] = "done"
        /\ StatusSucceeded(s)
        /\ ServerStatusOf(s) = "Healthy"
        /\ calls[s].lease = 1
        /\ resp[s].code = 200

\* C3: if the status fetch fails (transport or decode failure) the metrics
\* route answers 503, no metric sample is emitted and the lease endpoint is
\* never called in that scrape.
C3_StatusFailureIs503 ==
    \A s \in Scrapes :
        StatusFailed(s) =>
            /\ pc[s] = "done"
            /\ resp[s].code = 503
            /\ NoSampleEmitted(resp[s])
            /\ calls[s].lease = 0
            /\ got[s].lease = NoReply

C3_Witness ==
    /\ \E s \in Scrapes :
        /\ StatusFailed(s)
        /\ got[s].status.kind = "transport"
        /\ got[s].status.desc = <<"e", "\n", "e">>
        /\ resp[s].code = 503

\* C4: if the status fetch succeeds as healthy and the lease fetch fails,
\* the route answers 503 and the response carries no sample; a scrape
\* answers 200 only if every upstream call it made succeeded.
C4_LeaseFailureIs503 ==
    \A s \in Scrapes :
        /\ LeaseFailed(s) =>
              /\ pc[s] = "done"
              /\ resp[s].code = 503
              /\ NoSampleEmitted(resp[s])
        /\ resp[s].code = 200 =>
              /\ calls[s].status = 1 /\ status_report[s].set
              /\ calls[s].lease = 1 => report[s].set

C4_Witness ==
    \E s \in Scrapes :
        /\ LeaseFailed(s)
        /\ StatusSucceeded(s)
        /\ r[s]["uls_health"][NoLabels] = 1
        /\ got[s].lease.kind = "garbage"
        /\ resp[s].code = 503

\* C5: a healthy scrape whose lease list holds N licenses with pairwise
\* distinct label tuples (N >= 0) answers 200 with exactly N
\* uls_license_leased samples, one per license at its label tuple, 0 if
\* revoked and 1 otherwise.
C5_OneSamplePerLicense ==
    \A s \in Scrapes :
        (report[s].set /\ DistinctTuples(LeaseArray(s))) =>
            /\ resp[s].code = 200
            /\ Cardinality(SamplesNamed(resp[s], "uls_license_leased")) = Len(LeaseArray(s))
            /\ \A i \in 1..Len(LeaseArray(s)) :
                  Sample("uls_license_leased", WireLabels(LeaseArray(s)[i]),
                         WireValue(LeaseArray(s)[i])) \in resp[s].samples

C5_Witness ==
    \E s \in Scrapes :
        /\ report[s].set
        /\ Len(LeaseArray(s)) = 3
        /\ DistinctTuples(LeaseArray(s))
        /\ \E i, j \in 1..3 : LeaseArray(s)[i].isRevoked /\ ~LeaseArray(s)[j].isRevoked
        /\ \E i, j \in 1..3 :
              /\ LeaseArray(s)[i].floatingLeaseId = LeaseArray(s)[j].floatingLeaseId
              /\ LeaseArray(s)[i].clientEntitlementContext.EnvironmentUser = "alice"
              /\ LeaseArray(s)[j].clientEntitlementContext.EnvironmentUser = "bob"
        /\ resp[s].code = 200

\* C6: when licenses of the fetched list share a label tuple the scrape
\* still answers 200 and the output holds exactly one sample for that tuple,
\* with the value of the license that comes last in the list; the samples of
\* other tuples are unaffected.
C6_LastWriteWins ==
    \A s \in Scrapes :
        (report[s].set /\ ~DistinctTuples(LeaseArray(s))) =>
            /\ resp[s].code = 200
            /\ \A i \in 1..Len(LeaseArray(s)) :
                  LET t == WireLabels(LeaseArray(s)[i])
                      last == CHOOSE j \in 1..Len(LeaseArray(s)) :
                                 /\ WireLabels(LeaseArray(s)[j]) = t
                                 /\ \A k \in (j + 1)..Len(LeaseArray(s)) :
                                       WireLabels(LeaseArray(s)[k]) # t
                  IN  {x \in SamplesNamed(resp[s], "uls_license_leased") : x.labels = t}
                         = {Sample("uls_license_leased", t, WireValue(LeaseArray(s)[last]))}
            /\ \A x \in SamplesNamed(resp[s], "uls_license_leased") :
                  \E i \in 1..Len(LeaseArray(s)) : x.labels = WireLabels(LeaseArray(s)[i])

C6_Witness ==
    \E s \in Scrapes :
        /\ report[s].set
        /\ Len(LeaseArray(s)) = 3
        /\ WireLabels(LeaseArray(s)[1]) = WireLabels(LeaseArray(s)[2])
        /\ WireLabels(LeaseArray(s)[3]) # WireLabels(LeaseArray(s)[1])
        /\ ~LeaseArray(s)[1].isRevoked
        /\ LeaseArray(s)[2].isRevoked
        /\ resp[s].code = 200
        /\ Cardinality(SamplesNamed(resp[s], "uls_license_leased")) = 2

\* C7: in every 200 scrape uls_health is 1 if server_status is exactly
\* "Healthy" and 0 otherwise, and uls_uptime_ms is the status report's
\* serverUpTimeMs unchanged, healthy or not.
C7_HealthAndUptime ==
    \A s \in Scrapes :
        resp[s].code = 200 =>
            /\ SamplesNamed(resp[s], "uls_health") =
                  {Sample("uls_health", NoLabels,
                          IF got[s].status.serverStatus = "Healthy" THEN 1 ELSE 0)}
            /\ SamplesNamed(resp[s], "uls_uptime_ms") =
                  {Sample("uls_uptime_ms", NoLabels, status_report[s].val.server_up_time_ms)}
            /\ got[s].status.serverUpTimeMs \in UpTimes
            /\ status_report[s].val.server_up_time_ms
                  = (CASE got[s].status.serverUpTimeMs = Num(FALSE, <<0>>) -> 0
                       [] got[s].status.serverUpTimeMs = Num(FALSE, <<1, 2, 3, 4, 5, 6>>) -> 123456
                       [] got[s].status.serverUpTimeMs = Num(TRUE, <<5>>) -> -5)

C7_Witness ==
    \E s \in Scrapes :
        /\ resp[s].code = 200
        /\ got[s].status.serverStatus = "Healthy"
        /\ got[s].status.serverUpTimeMs = Num(FALSE, <<1, 2, 3, 4, 5, 6>>)
        /\ Sample("uls_uptime_ms", NoLabels, 123456) \in resp[s].samples
        /\ Len(LeaseArray(s)) > 0

\* C8: every 503 body is the comment header line followed by the error
\* description, and every line of the body begins with '#'.
C8_ErrorBodyIsCommented ==
    \A s \in Scrapes :
        resp[s].code = 503 =>
            /\ EveryLineIsComment(resp[s].body)
            /\ Len(resp[s].body) >= Len(ErrorHeader)
            /\ SubSeq(resp[s].body, 1, Len(ErrorHeader)) = ErrorHeader
            /\ got[s].status.kind = "transport" =>
                  resp[s].body = ErrorHeader \o CommentedOut(got[s].status.desc)
            /\ got[s].lease.kind = "transport" =>
                  resp[s].body = ErrorHeader \o CommentedOut(got[s].lease.desc)

C8_Witness ==
    \E s \in Scrapes :
        /\ resp[s].code = 503
        /\ got[s].lease.kind = "transport"
        /\ got[s].lease.desc = <<"e", "\n", "\n">>

\* C9: scrapes that receive the same status and lease replies from the
\* upstream give the same status code and the same set of samples, whatever
\* ran before or beside them.
C9_SameRepliesSameResponse ==
    \A s, t \in Scrapes :
        (pc[s] = "done" /\ pc[t] = "done" /\ got[s] = got[t]) =>
            /\ resp[s].code = resp[t].code
            /\ resp[s].samples = resp[t].samples

C9_Witness ==
    \E s, t \in Scrapes :
        /\ s # t
        /\ pc[s] = "done" /\ pc[t] = "done"
        /\ got[s] = got[t]
        /\ got[s].lease.kind = "json"
        /\ Len(LeaseArray(s)) = 2
        /\ resp[s].code = 200 /\ resp[t].code = 200

\* C10: the liveness route can answer in every state; its answer is always
\* 200 with the constant banner, and answering changes nothing of any
\* scrape nor calls the upstream.
C10_IndexAlwaysAnswers ==
    /\ [](ENABLED Index)
    /\ [][live' # NoResp =>
            /\ live' = [code |-> 200, samples |-> {}, body |-> Banner]
            /\ UNCHANGED <<pc, r, status_report, report, got, calls, resp>>]_vars

C10_Witness ==
    /\ live = IndexReply
    /\ \E s, t \in Scrapes :
          /\ pc[s] = "lease"
          /\ pc[t] = "done" /\ resp[t].code = 503

\* C11: within one scrape the lease request is never sent before the
\* status request of that scrape has completed with a healthy result.
C11_LeaseAfterHealthyStatus ==
    /\ [](\A s \in Scrapes :
            (calls[s].lease > 0 \/ pc[s] = "lease" \/ got[s].lease # NoReply) =>
                /\ got[s].status.kind = "json"
                /\ got[s].status.serverStatus = "Healthy"
                /\ status_report[s].set)
    /\ [][\A s \in Scrapes :
            calls'[s].lease > calls[s].lease =>
                /\ calls[s].status = 1
                /\ got'[s].status.kind = "json"
                /\ got'[s].status.serverStatus = "Healthy"]_vars

C11_Witness ==
    \E s \in Scrapes :
        /\ pc[s] = "lease"
        /\ calls[s].lease = 1
        /\ got[s].status.serverStatus = "Healthy"
        /\ got[s].lease = NoReply

\* metrics and metrics_handle run from start to end with nothing in between,
\* on the replies the upstream gave
RanAlone(replies) ==
    LET ds == DecodeStatus(replies.status) IN
    IF ~ds.ok THEN metrics_handle(Err(ds.desc))
    ELSE LET reg0 == Register(Register(RegistryNew, "uls_health", NewGauge),
                              "uls_uptime_ms", NewGauge)
             reg1 == SetValue(reg0, "uls_health", NoLabels, HealthValue(ds.val))
             reg2 == SetValue(reg1, "uls_uptime_ms", NoLabels, UptimeValue(ds.val))
         IN  IF ~NeedsLeases(ds.val) THEN metrics_handle(Ok(Gather(reg2)))
             ELSE LET dl == DecodeLeases(replies.lease) IN
                  IF ~dl.ok THEN metrics_handle(LeaseFetchFailed(reg2, dl.desc))
                  ELSE metrics_handle(Ok(Gather(
                          SetLeases(Register(reg2, "uls_license_leased", NewGaugeVec),
                                    dl.val))))

\* everything one request task holds
TaskState(s) == <<pc[s], r[s], status_report[s], report[s], got[s], calls[s], resp[s]>>

\* C12: in any interleaving of scrapes each scrape answers what it would
\* answer if run alone on the same upstream replies; a step of one scrape
\* changes nothing that another scrape holds, and the two endpoint URLs are
\* never written after startup.
C12_ScrapesAreIsolated ==
    /\ [](\A s \in Scrapes : pc[s] = "done" => resp[s] = RanAlone(got[s]))
    /\ [][\A s, t \in Scrapes :
            (s # t /\ TaskState(s)' # TaskState(s)) => TaskState(t)' = TaskState(t)]_vars
    /\ [][uls_status_url' = uls_status_url /\ uls_lease_url' = uls_lease_url]_vars

C12_Witness ==
    \E s, t \in Scrapes :
        /\ s # t
        /\ pc[s] = "lease"
        /\ pc[t] = "done"
        /\ resp[t].code = 200
        /\ SamplesNamed(resp[t], "uls_license_leased") # {}
        /\ resp[t] = RanAlone(got[t])

\* requests a scrape has sent to an endpoint and replies it has had from it
Pending(s, endpoint) ==
    IF endpoint = "status" THEN (IF pc[s] = "status" THEN 1 ELSE 0)
    ELSE (IF pc[s] = "lease" THEN 1 ELSE 0)

Replied(s, endpoint) == IF got[s][endpoint] # NoReply THEN 1 ELSE 0

\* C13: no upstream call is retried: a scrape requests the status endpoint
\* exactly once and the lease endpoint at most once, every request is
\* answered by at most one reply, and once a call of a scrape has failed the
\* scrape sends no further request before it responds.
C13_NoRetry ==
    /\ [](\A s \in Scrapes :
            /\ pc[s] # "idle" => calls[s].status = 1
            /\ calls[s].lease <= 1
            /\ calls[s].status = Pending(s, "status") + Replied(s, "status")
            /\ calls[s].lease = Pending(s, "lease") + Replied(s, "lease")
            /\ (StatusFailed(s) \/ LeaseFailed(s)) => pc[s] = "done" /\ resp[s].code = 503)
    /\ [][\A s \in Scrapes :
            (StatusFailed(s) \/ LeaseFailed(s)) =>
                \/ calls'[s] = calls[s]
                \/ resp[s].code = 503 /\ pc'[s] = "status" /\ got'[s].status = NoReply]_vars

C13_Witness ==
    \E s \in Scrapes :
        /\ LeaseFailed(s)
        /\ got[s].lease.kind = "transport"
        /\ calls[s] = [status |-> 1, lease |-> 1]
        /\ resp[s].code = 503

\* C14: a scrape whose upstream calls each return reaches one of the two
\* exits, 200 or 503, and sends exactly one response, whatever the other
\* scrapes do; a scrape that still waits for the upstream has sent nothing.
C14_EveryScrapeResponds ==
    /\ \A s \in Responsive :
          (pc[s] \in {"status", "lease"}) ~> (pc[s] = "done" /\ resp[s].code \in {200, 503})
    /\ [](\A s \in Scrapes :
            /\ pc[s] \in {"status", "lease"} => resp[s] = NoResp
            /\ pc[s] = "done" => resp[s].code \in {200, 503})
    /\ [][\A s \in Scrapes :
            resp'[s] # resp[s] =>
                \/ resp[s] = NoResp /\ pc[s] \in {"status", "lease"} /\ pc'[s] = "done"
                \/ pc[s] = "done" /\ pc'[s] = "status" /\ resp'[s] = NoResp]_vars

C14_Witness ==
    \E s \in Responsive, t \in Scrapes \ Responsive :
        /\ pc[t] = "lease"
        /\ resp[t] = NoResp
        /\ pc[s] = "done"
        /\ resp[s].code = 200
        /\ got[s].lease.kind = "json"

\* the task is suspended inside metrics, whose local r is the registry
RegistryExists(s) == pc[s] \in {"status", "lease"}

ScalarGauges == {"uls_health", "uls_uptime_ms"}

IsScalar(family) == DOMAIN family = {NoLabels}

C16_RegistrationNeverFails ==
    \A s \in Scrapes :
        /\ resp[s] # Panicked
        /\ pc[s] = "status" =>
              CanRegister(r[s], "uls_health") /\ CanRegister(r[s], "uls_uptime_ms")
        /\ pc[s] = "lease" => CanRegister(r[s], "uls_license_leased")
        /\ (pc[s] = "done" /\ resp[s].code # 200) =>
              resp[s].code = 503 /\ (StatusFailed(s) \/ LeaseFailed(s))

C16_Witness ==
    \E s \in Scrapes :
        /\ pc[s] = "done"
        /\ DOMAIN r[s] = {"uls_health", "uls_uptime_ms", "uls_license_leased"}
        /\ resp[s].code = 200
        /\ Cardinality(resp[s].samples) = 5

\* C17: the uls_uptime_ms value of every 200 response is >= 0.
C17_UptimeNonNegative ==
    \A s \in Scrapes :
        resp[s].code = 200 =>
            \A x \in SamplesNamed(resp[s], "uls_uptime_ms") : x.value >= 0

\* a numeral of ten digits that starts above 2, or of more digits, is no i32
BeyondI32(n) == Len(n.digits) > 10 \/ (Len(n.digits) = 10 /\ n.digits[1] > 2)

\* the decimal rendering of a non-negative numeral
Rendered(n) == [i \in 1..Len(n.digits) |-> DigitChar[n.digits[i] + 1]]

\* C18: the lease_id label of every uls_license_leased sample is the decimal
\* rendering of the upstream floatingLeaseId, so licenses with different ids
\* never share a sample; a lease list with an id beyond the signed 32-bit
\* range makes the scrape answer 503 and no sample is emitted.
C18_LeaseIdIsExact ==
    \A s \in Scrapes :
        (pc[s] = "done" /\ got[s].lease.kind = "json") =>
            IF \E i \in 1..Len(LeaseArray(s)) : BeyondI32(LeaseArray(s)[i].floatingLeaseId)
            THEN resp[s].code = 503 /\ NoSampleEmitted(resp[s])
            ELSE /\ resp[s].code = 200
                 /\ {x.labels[1] : x \in SamplesNamed(resp[s], "uls_license_leased")}
                       = {Rendered(LeaseArray(s)[i].floatingLeaseId) :
                             i \in 1..Len(LeaseArray(s))}
                 /\ \A i \in 1..Len(LeaseArray(s)) :
                       \E x \in SamplesNamed(resp[s], "uls_license_leased") :
                           x.labels = WireLabels(LeaseArray(s)[i])

C18_Witness ==
    \E s \in Scrapes :
        /\ pc[s] = "done"
        /\ got[s].lease.kind = "json"
        /\ Len(LeaseArray(s)) = 3
        /\ LeaseArray(s)[1].floatingLeaseId = Num(FALSE, <<7>>)
        /\ LeaseArray(s)[2].floatingLeaseId = Num(FALSE, <<8>>)
        /\ LeaseArray(s)[3].floatingLeaseId = TooBigLeaseId
        /\ resp[s].code = 503

====
